---- MODULE Spec2Model ----
(***************************************************************************)
(* Model of bitcoin_network_tools.bitnodes_api.BitnodesAPI: the request    *)
(* construction and validation layer of a client of the Bitnodes HTTP API  *)
(* and of the Bitnodes DNS seeder.                                         *)
(*                                                                         *)
(* Python values are records [t |-> type, v |-> payload]; strings are      *)
(* sequences of one-character strings, so that indexing, concatenation,    *)
(* lower(), isdigit() and the substring test are computed character by     *)
(* character as the code computes them.                                    *)
(***************************************************************************)
EXTENDS Integers, Sequences, FiniteSets, TLC

(***************************************************************************)
(* Bounds of the model.                                                    *)
(***************************************************************************)
\* the wall clock (microseconds) ranges over 0..MaxTime
MaxTime == 2

(***************************************************************************)
(* Python values.                                                          *)
(***************************************************************************)
None == [t |-> "none", v |-> 0]
Unset == [t |-> "unset", v |-> 0]
PyInt(n) == [t |-> "int", v |-> n]
PyBool(b) == [t |-> "bool", v |-> IF b THEN 1 ELSE 0]
PyStr(s) == [t |-> "str", v |-> s]
PyFloat(repr) == [t |-> "float", v |-> repr]
PyList(xs) == [t |-> "list", v |-> xs]
PyBytes(s) == [t |-> "bytes", v |-> s]

\* isinstance(x, int): bool is a subclass of int
IsInstanceInt(x) == x.t \in {"int", "bool"}
\* isinstance(x, str)
IsInstanceStr(x) == x.t = "str"
\* isinstance(x, list)
IsInstanceList(x) == x.t = "list"

\* truth value of an object: `if x` / `not x`
Truthy(x) ==
    CASE x.t = "none" -> FALSE
      [] x.t \in {"int", "bool"} -> x.v # 0
      [] x.t \in {"str", "list", "bytes", "dict"} -> Len(x.v) > 0
      [] OTHER -> TRUE

(***************************************************************************)
(* Strings.                                                                *)
(***************************************************************************)
Digits == <<"0", "1", "2", "3", "4", "5", "6", "7", "8", "9">>
UpperCase == <<"A", "B", "C", "D", "E", "F", "G", "H", "I", "J", "K", "L", "M",
               "N", "O", "P", "Q", "R", "S", "T", "U", "V", "W", "X", "Y", "Z">>
LowerCase == <<"a", "b", "c", "d", "e", "f", "g", "h", "i", "j", "k", "l", "m",
               "n", "o", "p", "q", "r", "s", "t", "u", "v", "w", "x", "y", "z">>

RECURSIVE NatToStr(_)
\* decimal digits of a natural number
NatToStr(n) ==
    IF n < 10 THEN <<Digits[n + 1]>>
    ELSE NatToStr(n \div 10) \o <<Digits[(n % 10) + 1]>>

\* str(n) for an int
IntToStr(n) == IF n < 0 THEN <<"-">> \o NatToStr(0 - n) ELSE NatToStr(n)

\* format(value, "") as used by an f-string replacement field
Format(x) ==
    CASE x.t = "none" -> <<"N", "o", "n", "e">>
      [] x.t = "int" -> IntToStr(x.v)
      [] x.t = "bool" -> IF x.v = 1 THEN <<"T", "r", "u", "e">>
                         ELSE <<"F", "a", "l", "s", "e">>
      [] OTHER -> x.v

\* str.lower() on one character
LowerChar(c) ==
    IF \E i \in 1..Len(UpperCase) : UpperCase[i] = c
    THEN LowerCase[CHOOSE i \in 1..Len(UpperCase) : UpperCase[i] = c]
    ELSE c

\* a comparison that forgets to lower-case its operand
LowerOmitted(s) == s

\* str.lower()
Lower(s) == [i \in 1..Len(s) |-> LowerChar(s[i])]

\* str.isdigit(): non-empty and every character a digit
IsDigit(s) ==
    /\ Len(s) > 0
    /\ \A i \in 1..Len(s) : \E d \in 1..Len(Digits) : Digits[d] = s[i]

\* `sub in s` for strings
Contains(s, sub) ==
    \E i \in 0..(Len(s) - Len(sub)) :
        \A j \in 1..Len(sub) : s[i + j] = sub[j]

RECURSIVE Join(_, _)
\* sep.join(parts) for a sequence of str values
Join(sep, parts) ==
    IF Len(parts) = 0 THEN <<>>
    ELSE IF Len(parts) = 1 THEN parts[1].v
    ELSE parts[1].v \o sep \o Join(sep, Tail(parts))

(***************************************************************************)
(* Validators.  Each returns the name of the exception it raises, or "ok". *)
(***************************************************************************)
MaxLimit == 100
MaxPort == 65535

\* _validate_pagination with the upper bound of limit excluded
_validate_pagination_exclusive(page, limit) ==
    IF page # None /\ ~IsInstanceInt(page) THEN "ValueError"
    ELSE IF limit # None
         THEN IF ~IsInstanceInt(limit) \/ ~(1 <= limit.v /\ limit.v < MaxLimit)
              THEN "ValueError"
              ELSE "ok"
         ELSE "ok"

\* BitnodesAPI._validate_pagination
_validate_pagination(page, limit) ==
    IF page # None /\ ~IsInstanceInt(page) THEN "ValueError"
    ELSE IF limit # None
         THEN IF ~IsInstanceInt(limit) \/ ~(1 <= limit.v /\ limit.v <= MaxLimit)
              THEN "ValueError"
              ELSE "ok"
         ELSE "ok"

\* _validate_address_port with port 0 let through
_validate_address_port_zero(address, port) ==
    IF ~IsInstanceStr(address) \/ ~Truthy(address) THEN "ValueError"
    ELSE IF ~IsInstanceInt(port) \/ ~(0 <= port.v /\ port.v <= MaxPort)
         THEN "ValueError"
         ELSE "ok"

\* BitnodesAPI._validate_address_port
_validate_address_port(address, port) ==
    IF ~IsInstanceStr(address) \/ ~Truthy(address) THEN "ValueError"
    ELSE IF ~IsInstanceInt(port) \/ ~(1 <= port.v /\ port.v <= MaxPort)
         THEN "ValueError"
         ELSE "ok"

(***************************************************************************)
(* Query builder.  A dict is the sequence of its <<key, value>> items in   *)
(* insertion order.                                                        *)
(***************************************************************************)
RECURSIVE AppendItemsWithNulls(_, _)
\* the for loop of _add_optional_params without its test for None
AppendItemsWithNulls(url, items) ==
    IF Len(items) = 0 THEN url
    ELSE AppendItemsWithNulls(url \o items[1][1] \o <<"=">>
                              \o Format(items[1][2]) \o <<"&">>,
                              Tail(items))

RECURSIVE AppendItems(_, _)
\* the for loop of _add_optional_params
AppendItems(url, items) ==
    IF Len(items) = 0 THEN url
    ELSE LET key == items[1][1]
             value == items[1][2]
         IN AppendItems(IF value # None
                        THEN url \o key \o <<"=">> \o Format(value) \o <<"&">>
                        ELSE url,
                        Tail(items))

\* BitnodesAPI._add_optional_params
_add_optional_params(og_url_str, optional_params) ==
    IF Len(optional_params) > 0
    THEN LET s == AppendItems(og_url_str \o <<"?">>, optional_params)
         IN IF s[Len(s)] = "&" THEN SubSeq(s, 1, Len(s) - 1) ELSE s
    ELSE og_url_str

(***************************************************************************)
(* The process environment: os.environ, the file system and the clock.     *)
(***************************************************************************)
\* the two key files that exist: one readable, one that open() fails on
KeyFile == PyStr(<<"/", "k">>)
LockedFile == PyStr(<<"/", "l">>)
NoFile == PyStr(<<"/", "m">>)
FileSecret == PyStr(<<"F", "S">>)
EnvSecret == PyStr(<<"E", "S">>)

\* os.path.exists(path)
PathExists(path) == path \in {KeyFile, LockedFile}

\* open(path, "r").read(): the content, or Unset when open() raises OSError
ReadFile(path) == IF path = KeyFile THEN FileSecret ELSE Unset

\* every value that is private key material in some environment
KeyMaterial == {FileSecret, EnvSecret}

(***************************************************************************)
(* Credentials.  An instance is the record of its attributes; an attribute *)
(* that was never assigned is Unset.  Every method returns the instance    *)
(* after the call next to its outcome.                                     *)
(***************************************************************************)
BaseUrl == <<"h", "t", "t", "p", "s", ":", "/", "/", "b", "i", "t", "n", "o",
             "d", "e", "s", ".", "i", "o", "/", "a", "p", "i", "/", "v", "1", "/">>

\* BitnodesAPI.__init__
__init__(environ, public_api_key, private_key_path) ==
    LET no_private_key_found ==
            private_key_path = None /\ environ.BITNODES_PRIVATE_KEY = None
    IN [self |-> [base_url |-> BaseUrl,
                  public_api_key |->
                      IF environ.BITNODES_PUBLIC_KEY # None
                      THEN environ.BITNODES_PUBLIC_KEY
                      ELSE public_api_key,
                  private_key_path |-> Unset],
        exc |-> "none",
        ret |-> None,
        warned |-> (public_api_key = None \/ no_private_key_found)]

\* set_public_api_key assigning the key before it checks it
set_public_api_key_unchecked(self, public_api_key) ==
    IF ~Truthy(public_api_key) \/ ~IsInstanceStr(public_api_key)
    THEN [self |-> [self EXCEPT !.public_api_key = public_api_key],
          exc |-> "ValueError", ret |-> None]
    ELSE [self |-> [self EXCEPT !.public_api_key = public_api_key],
          exc |-> "none", ret |-> PyBool(TRUE)]

\* BitnodesAPI.set_public_api_key
set_public_api_key(self, public_api_key) ==
    IF ~Truthy(public_api_key) \/ ~IsInstanceStr(public_api_key)
    THEN [self |-> self, exc |-> "ValueError", ret |-> None]
    ELSE [self |-> [self EXCEPT !.public_api_key = public_api_key],
          exc |-> "none", ret |-> PyBool(TRUE)]

\* BitnodesAPI.get_public_api_key
get_public_api_key(self) == self.public_api_key

\* BitnodesAPI._set_private_key_path
_set_private_key_path(self, path_to_private_key) ==
    IF ~PathExists(path_to_private_key)
    THEN [self |-> self, exc |-> "FileNotFoundError", ret |-> None]
    ELSE [self |-> [self EXCEPT !.private_key_path = path_to_private_key],
          exc |-> "none", ret |-> PyBool(TRUE)]

\* _get_private_key keeping what it read in an attribute of the instance
_get_private_key_cached(self, environ) ==
    LET key == IF environ.BITNODES_PRIVATE_KEY # None
               THEN environ.BITNODES_PRIVATE_KEY
               ELSE IF self.private_key_path = Unset
                    THEN Unset
                    ELSE ReadFile(self.private_key_path)
    IN IF key = Unset
       THEN [self |-> self, exc |-> "RuntimeError", ret |-> None]
       ELSE [self |-> [f \in DOMAIN self \cup {"private_key"} |->
                          IF f = "private_key" THEN key ELSE self[f]],
             exc |-> "none", ret |-> key]

\* _get_private_key answering an empty key when it cannot read one
_get_private_key_lenient(self, environ) ==
    IF environ.BITNODES_PRIVATE_KEY # None
    THEN [self |-> self, exc |-> "none", ret |-> environ.BITNODES_PRIVATE_KEY]
    ELSE IF self.private_key_path = Unset
            \/ ReadFile(self.private_key_path) = Unset
         THEN [self |-> self, exc |-> "none", ret |-> PyStr(<<>>)]
         ELSE [self |-> self, exc |-> "none",
               ret |-> ReadFile(self.private_key_path)]

\* BitnodesAPI._get_private_key
_get_private_key(self, environ) ==
    IF environ.BITNODES_PRIVATE_KEY # None
    THEN [self |-> self, exc |-> "none", ret |-> environ.BITNODES_PRIVATE_KEY]
    ELSE IF self.private_key_path = Unset
            \/ ReadFile(self.private_key_path) = Unset
         THEN [self |-> self, exc |-> "RuntimeError", ret |-> None]
         ELSE [self |-> self, exc |-> "none",
               ret |-> ReadFile(self.private_key_path)]

(***************************************************************************)
(* Signer.  HMAC-SHA256 is a symbolic term over its key and its message.   *)
(***************************************************************************)
\* str.encode()
Encode(s) == PyBytes(s.v)

\* hmac.new(key, message, hashlib.sha256).hexdigest()
HmacSha256Hex(key, message) ==
    [alg |-> "HMAC-SHA256", key |-> key, msg |-> message]

SigPrefix == <<"H", "M", "A", "C", "_", "S", "H", "A", "2", "5", "6", ":">>

\* the nonce of a signing call: str(int(time.time() * 1_000_000))
Nonce(time_us) == IntToStr(time_us)

\* _generate_auth_headers signing the public key and the nonce only
_generate_auth_headers_no_uri(self, environ, time_us, uri) ==
    LET nonce == Nonce(time_us)
        message == Encode(PyStr(Format(get_public_api_key(self)) \o <<":">>
                                \o nonce))
        key == _get_private_key(self, environ)
    IN IF key.exc # "none"
       THEN [self |-> key.self, exc |-> key.exc, ret |-> None,
             key |-> None, nonce |-> time_us]
       ELSE [self |-> key.self, exc |-> "none",
             ret |-> [pubkey |-> get_public_api_key(self),
                      nonce |-> PyStr(nonce),
                      sig |-> <<SigPrefix,
                                HmacSha256Hex(Encode(key.ret), message)>>],
             key |-> key.ret, nonce |-> time_us]

\* BitnodesAPI._generate_auth_headers; time_us is the clock in microseconds
_generate_auth_headers(self, environ, time_us, uri) ==
    LET nonce == Nonce(time_us)
        message == Encode(PyStr(Format(get_public_api_key(self)) \o <<":">>
                                \o nonce \o <<":">> \o Format(uri)))
        key == _get_private_key(self, environ)
    IN IF key.exc # "none"
       THEN [self |-> key.self, exc |-> key.exc, ret |-> None,
             key |-> None, nonce |-> time_us]
       ELSE [self |-> key.self, exc |-> "none",
             ret |-> [pubkey |-> get_public_api_key(self),
                      nonce |-> PyStr(nonce),
                      sig |-> <<SigPrefix,
                                HmacSha256Hex(Encode(key.ret), message)>>],
             key |-> key.ret, nonce |-> time_us]

(***************************************************************************)
(* HTTP transport.  An outcome of requests.get is a connection failure or  *)
(* a response with a status code and a body.  An endpoint's result records *)
(* the requests it issued (http) and the DNS queries it issued (dns).      *)
(***************************************************************************)
JsonBody == PyBytes(<<"{", "}">>)
HtmlBody == PyBytes(<<"<", "h", ">">>)

Raise(e, http, dns) == [exc |-> e, ret |-> None, http |-> http, dns |-> dns]
Return(value, http, dns) ==
    [exc |-> "none", ret |-> value, http |-> http, dns |-> dns]

\* requests.get(url): the request as the transport sees it
Request(url) == [method |-> "GET", url |-> url, headers |-> None]

\* Response.raise_for_status(): HTTPError for 4xx and 5xx
RaisesForStatus(status) == 400 <= status /\ status < 600

\* Response.json()
Json(resp, url) ==
    IF Len(resp.body.v) >= 2 /\ resp.body.v[1] = "{"
       /\ resp.body.v[Len(resp.body.v)] = "}"
    THEN Return([t |-> "dict",
                 v |-> SubSeq(resp.body.v, 2, Len(resp.body.v) - 1)],
                <<Request(url)>>, <<>>)
    ELSE Raise("JSONDecodeError", <<Request(url)>>, <<>>)

\* GetChecked sending the request a second time after a failure
GetCheckedRetry(url, out) ==
    IF out.k = "fail"
    THEN Raise("ConnectionError", <<Request(url), Request(url)>>, <<>>)
    ELSE IF RaisesForStatus(out.status)
         THEN Raise("HTTPError", <<Request(url), Request(url)>>, <<>>)
         ELSE Json(out, url)

\* response = requests.get(url); response.raise_for_status();
\* return response.json()
GetChecked(url, out) ==
    IF out.k = "fail" THEN Raise("ConnectionError", <<Request(url)>>, <<>>)
    ELSE IF RaisesForStatus(out.status)
         THEN Raise("HTTPError", <<Request(url)>>, <<>>)
         ELSE Json(out, url)

\* response = requests.get(url); return response.json()
GetUnchecked(url, out) ==
    IF out.k = "fail" THEN Raise("ConnectionError", <<Request(url)>>, <<>>)
    ELSE Json(out, url)

(***************************************************************************)
(* HTTP endpoints.  `out` is the outcome the transport produces if the     *)
(* endpoint gets as far as calling it.                                     *)
(***************************************************************************)
PageKey == <<"p", "a", "g", "e">>
LimitKey == <<"l", "i", "m", "i", "t">>
Latest == <<"l", "a", "t", "e", "s", "t">>
FieldNames == {<<"c", "o", "o", "r", "d", "i", "n", "a", "t", "e", "s">>,
               <<"u", "s", "e", "r", "_", "a", "g", "e", "n", "t", "s">>}

\* BitnodesAPI.get_snapshots
get_snapshots(self, page, limit, out) ==
    IF _validate_pagination(page, limit) # "ok"
    THEN Raise(_validate_pagination(page, limit), <<>>, <<>>)
    ELSE LET url == self.base_url
                    \o <<"s", "n", "a", "p", "s", "h", "o", "t", "s", "/">>
             optional_params == <<<<PageKey, page>>, <<LimitKey, limit>>>>
         IN GetUnchecked(_add_optional_params(url, optional_params), out)

\* BitnodesAPI.get_nodes_list
get_nodes_list(self, timestamp, field, out) ==
    IF field # None /\ ~IsInstanceStr(field)
    THEN Raise("AttributeError", <<>>, <<>>)
    ELSE IF field # None /\ Lower(field.v) \notin FieldNames
    THEN Raise("ValueError", <<>>, <<>>)
    ELSE IF ~IsInstanceStr(timestamp)
    THEN Raise("AttributeError", <<>>, <<>>)
    ELSE IF timestamp.v # Latest /\ ~IsDigit(timestamp.v)
    THEN Raise("ValueError", <<>>, <<>>)
    ELSE LET url == self.base_url
                    \o <<"s", "n", "a", "p", "s", "h", "o", "t", "s", "/">>
                    \o Format(timestamp) \o <<"/">>
             optimal_params ==
                 (IF timestamp.v # Latest
                  THEN <<<<<<"t", "i", "m", "e", "s", "t", "a", "m", "p">>,
                           timestamp>>>>
                  ELSE <<>>)
                 \o (IF field # None
                     THEN <<<<<<"f", "i", "e", "l", "d">>, field>>>>
                     ELSE <<>>)
         IN IF timestamp.v # Latest \/ field # None
            THEN GetChecked(_add_optional_params(url, optimal_params), out)
            ELSE GetChecked(url, out)

\* BitnodesAPI.get_address_list
get_address_list(self, page, limit, q, out) ==
    IF _validate_pagination(page, limit) # "ok"
    THEN Raise(_validate_pagination(page, limit), <<>>, <<>>)
    ELSE IF q # None
            /\ (~IsInstanceList(q)
                \/ ~(\A i \in 1..Len(q.v) : IsInstanceStr(q.v[i])))
    THEN Raise("ValueError", <<>>, <<>>)
    ELSE LET joined == IF q # None THEN PyStr(Join(<<",">>, q.v)) ELSE None
             url == self.base_url
                    \o <<"a", "d", "d", "r", "e", "s", "e", "s", "/">>
             optional_params == <<<<PageKey, page>>, <<LimitKey, limit>>,
                                  <<<<"q">>, joined>>>>
         IN GetChecked(_add_optional_params(url, optional_params), out)

\* get_node_status sending the request before it validates its arguments
get_node_status_eager(self, address, port, out) ==
    LET url == self.base_url \o <<"n", "o", "d", "e", "s", "/">>
               \o Format(address) \o <<"-">> \o Format(port) \o <<"/">>
    IN IF _validate_address_port(address, port) # "ok"
       THEN Raise(_validate_address_port(address, port), <<Request(url)>>, <<>>)
       ELSE GetChecked(url, out)

\* BitnodesAPI.get_node_status
get_node_status(self, address, port, out) ==
    IF _validate_address_port(address, port) # "ok"
    THEN Raise(_validate_address_port(address, port), <<>>, <<>>)
    ELSE GetChecked(self.base_url \o <<"n", "o", "d", "e", "s", "/">>
                    \o Format(address) \o <<"-">> \o Format(port) \o <<"/">>,
                    out)

\* BitnodesAPI.get_node_latency
get_node_latency(self, address, port, out) ==
    IF _validate_address_port(address, port) # "ok"
    THEN Raise(_validate_address_port(address, port), <<>>, <<>>)
    ELSE GetChecked(self.base_url \o <<"n", "o", "d", "e", "s", "/">>
                    \o Format(address) \o <<"-">> \o Format(port)
                    \o <<"/", "l", "a", "t", "e", "n", "c", "y", "/">>,
                    out)

\* BitnodesAPI.get_leaderboard
get_leaderboard(self, page, limit, out) ==
    IF _validate_pagination(page, limit) # "ok"
    THEN Raise(_validate_pagination(page, limit), <<>>, <<>>)
    ELSE LET url == self.base_url
                    \o <<"l", "e", "a", "d", "e", "r", "b", "o", "a", "r", "d",
                         "/">>
             optional_params == <<<<PageKey, page>>, <<LimitKey, limit>>>>
         IN GetChecked(_add_optional_params(url, optional_params), out)

\* BitnodesAPI.get_node_ranking
get_node_ranking(self, address, port, out) ==
    IF _validate_address_port(address, port) # "ok"
    THEN Raise(_validate_address_port(address, port), <<>>, <<>>)
    ELSE GetChecked(self.base_url
                    \o <<"n", "o", "d", "e", "s", "/", "l", "e", "a", "d", "e",
                         "r", "b", "o", "a", "r", "d", "/">>
                    \o Format(address) \o <<"-">> \o Format(port) \o <<"/">>,
                    out)

\* BitnodesAPI.get_data_propagation_list
get_data_propagation_list(self, page, limit, out) ==
    IF _validate_pagination(page, limit) # "ok"
    THEN Raise(_validate_pagination(page, limit), <<>>, <<>>)
    ELSE LET url == self.base_url
                    \o <<"d", "a", "t", "a", "-", "p", "r", "o", "p", "a", "g",
                         "a", "t", "i", "o", "n", "/">>
             optional_params == <<<<PageKey, page>>, <<LimitKey, limit>>>>
         IN GetChecked(_add_optional_params(url, optional_params), out)

\* BitnodesAPI.get_data_propagation
get_data_propagation(self, inv_hash, out) ==
    IF ~Truthy(inv_hash)
    THEN Raise("ValueError", <<>>, <<>>)
    ELSE GetChecked(self.base_url \o <<"i", "n", "v", "/">>
                    \o Format(inv_hash) \o <<"/">>, out)

(***************************************************************************)
(* DNS seeder.  A query records the resolver bounds in force when          *)
(* resolve() is called.  An outcome of resolve() is a DNSException or an   *)
(* answer, the sequence of its rdata.                                      *)
(***************************************************************************)
\* dns.resolver.Resolver() defaults
ResolverDefaults == [timeout |-> PyFloat(<<"2", ".", "0">>),
                     lifetime |-> PyFloat(<<"5", ".", "0">>)]

SeedDomain == <<"s", "e", "e", "d", ".", "b", "i", "t", "n", "o", "d", "e",
                "s", ".", "i", "o">>
OnionMarker == <<".", "o", "n", "i", "o", "n">>
RecordTypes == {<<"a">>, <<"a", "a", "a", "a">>, <<"t", "x", "t">>}

\* bytes.decode() succeeds unless the bytes are not UTF-8
Decodable(b) == \A i \in 1..Len(b.v) : b.v[i] # "\\xff"

RECURSIVE Strings(_)
\* the txt_string of every txt_record, in iteration order
Strings(txt_records) ==
    IF Len(txt_records) = 0 THEN <<>>
    ELSE txt_records[1].strings \o Strings(Tail(txt_records))

\* [txt_string.decode() for ... if ".onion" in txt_string.decode()]
OnionAddresses(txt_records) ==
    SelectSeq([i \in 1..Len(Strings(txt_records)) |->
                  PyStr(Strings(txt_records)[i].v)],
              LAMBDA x : Contains(x.v, OnionMarker))

\* get_dns_seeder answering an empty list when the resolver raises NoAnswer
get_dns_seeder_empty_on_no_answer(self, record, prefix, resolver_timeout, resolver_lifetime, out) ==
    IF ~IsInstanceStr(record) THEN Raise("AttributeError", <<>>, <<>>)
    ELSE IF Lower(record.v) \notin RecordTypes
    THEN Raise("ValueError", <<>>, <<>>)
    ELSE
      LET domain == IF Truthy(prefix)
                    THEN Format(prefix) \o <<".">> \o SeedDomain
                    ELSE SeedDomain
          resolver == ResolverDefaults
      IN IF Lower(record.v) = <<"t", "x", "t">>
         THEN IF ~IsInstanceInt(resolver_timeout) \/ resolver_timeout.v < 1
              THEN Raise("ValueError", <<>>, <<>>)
              ELSE IF ~IsInstanceInt(resolver_lifetime)
                      \/ resolver_lifetime.v < 1
              THEN Raise("ValueError", <<>>, <<>>)
              ELSE LET query == [domain |-> domain, rdtype |-> "TXT",
                                 timeout |-> resolver_timeout,
                                 lifetime |-> resolver_lifetime]
                   IN IF out.k = "exc"
                      THEN Raise("RuntimeError", <<>>, <<query>>)
                      ELSE IF \E i \in 1..Len(Strings(out.rrs)) :
                                  ~Decodable(Strings(out.rrs)[i])
                      THEN Raise("UnicodeDecodeError", <<>>, <<query>>)
                      ELSE Return(PyList(OnionAddresses(out.rrs)),
                                  <<>>, <<query>>)
         ELSE LET query == [domain |-> domain,
                            rdtype |-> IF Lower(record.v) = <<"a">>
                                       THEN "A" ELSE "AAAA",
                            timeout |-> resolver.timeout,
                            lifetime |-> resolver.lifetime]
              IN IF out.k = "exc" /\ out.name = "NoAnswer"
                 THEN Return(PyList(<<>>), <<>>, <<query>>)
                 ELSE IF out.k = "exc"
                 THEN Raise("RuntimeError", <<>>, <<query>>)
                 ELSE Return(PyList([i \in 1..Len(out.rrs) |->
                                        PyStr(out.rrs[i].address)]),
                             <<>>, <<query>>)

\* BitnodesAPI.get_dns_seeder
get_dns_seeder(self, record, prefix, resolver_timeout, resolver_lifetime, out) ==
    IF ~IsInstanceStr(record) THEN Raise("AttributeError", <<>>, <<>>)
    ELSE IF Lower(record.v) \notin RecordTypes
    THEN Raise("ValueError", <<>>, <<>>)
    ELSE
      LET domain == IF Truthy(prefix)
                    THEN Format(prefix) \o <<".">> \o SeedDomain
                    ELSE SeedDomain
          resolver == ResolverDefaults
      IN IF Lower(record.v) = <<"t", "x", "t">>
         THEN IF ~IsInstanceInt(resolver_timeout) \/ resolver_timeout.v < 1
              THEN Raise("ValueError", <<>>, <<>>)
              ELSE IF ~IsInstanceInt(resolver_lifetime)
                      \/ resolver_lifetime.v < 1
              THEN Raise("ValueError", <<>>, <<>>)
              ELSE LET query == [domain |-> domain, rdtype |-> "TXT",
                                 timeout |-> resolver_timeout,
                                 lifetime |-> resolver_lifetime]
                   IN IF out.k = "exc"
                      THEN Raise("RuntimeError", <<>>, <<query>>)
                      ELSE IF \E i \in 1..Len(Strings(out.rrs)) :
                                  ~Decodable(Strings(out.rrs)[i])
                      THEN Raise("UnicodeDecodeError", <<>>, <<query>>)
                      ELSE Return(PyList(OnionAddresses(out.rrs)),
                                  <<>>, <<query>>)
         ELSE LET query == [domain |-> domain,
                            rdtype |-> IF Lower(record.v) = <<"a">>
                                       THEN "A" ELSE "AAAA",
                            timeout |-> resolver.timeout,
                            lifetime |-> resolver.lifetime]
              IN IF out.k = "exc"
                 THEN Raise("RuntimeError", <<>>, <<query>>)
                 ELSE Return(PyList([i \in 1..Len(out.rrs) |->
                                        PyStr(out.rrs[i].address)]),
                             <<>>, <<query>>)

(***************************************************************************)
(* Inputs.                                                                 *)
(***************************************************************************)
PublicKeys == {PyStr(<<"P", "K">>), PyStr(<<"P", "2">>)}
EnvPublicKey == PyStr(<<"E", "P">>)
Environs == [BITNODES_PUBLIC_KEY : {None, EnvPublicKey},
             BITNODES_PRIVATE_KEY : {None, EnvSecret}]
Paths == {KeyFile, LockedFile, NoFile}
Uris == {PyStr(<<"u">>), PyStr(BaseUrl \o <<"i", "n", "v", "/">>)}

\* arguments of the validators called on their own
PageVals == {None, PyInt(0 - 1), PyInt(0), PyInt(2), PyBool(TRUE),
             PyStr(<<"2">>), PyFloat(<<"1", ".", "5">>)}
LimitVals == {None, PyInt(0 - 3), PyInt(0), PyInt(1), PyInt(5), PyInt(100),
              PyInt(101), PyBool(TRUE), PyBool(FALSE), PyStr(<<"5">>),
              PyFloat(<<"5", ".", "0">>)}
AddressVals == {None, PyStr(<<>>), PyStr(<<"h">>),
                PyStr(<<"1", ".", "2", ".", "3", ".", "4">>), PyInt(7)}
PortVals == {None, PyInt(0 - 1), PyInt(0), PyInt(1), PyInt(8333),
             PyInt(65535), PyInt(65536), PyBool(TRUE), PyStr(<<"8", "0">>)}

\* arguments of _add_optional_params called on its own
ParamKeys == <<PageKey, LimitKey, <<"q">>>>
ParamVals == {None, PyInt(2), PyInt(5), PyInt(100), PyStr(<<"a", "&">>)}
BaseStrs == {<<"b", "/">>, <<"b", "&">>}
Dicts == {<<>>}
         \cup {<<<<ParamKeys[1], a>>>> : a \in ParamVals}
         \cup {<<<<ParamKeys[1], a>>, <<ParamKeys[2], b>>>> :
                  a \in ParamVals, b \in ParamVals}
         \cup {<<<<ParamKeys[1], a>>, <<ParamKeys[2], b>>, <<ParamKeys[3], c>>>> :
                  a \in {None, PyInt(2)}, b \in {None, PyInt(100)},
                  c \in {None, PyStr(<<"a", "&">>)}}

\* arguments of the endpoints
PageArgs == {None, PyInt(2), PyStr(<<"2">>)}
LimitArgs == {None, PyInt(0), PyInt(100), PyInt(101)}
QArgs == {None, PyList(<<>>), PyList(<<PyStr(<<"a">>), PyStr(<<"b">>)>>),
          PyList(<<PyInt(22)>>), PyStr(<<"a">>)}
AddressArgs == {None, PyStr(<<>>), PyStr(<<"h">>)}
PortArgs == {PyInt(0), PyInt(8333), PyInt(65536)}
TimestampArgs == {PyStr(Latest), PyStr(<<"1", "7">>), PyStr(<<"t">>),
                  PyStr(<<>>), PyInt(17)}
FieldArgs == {None, PyStr(<<"c", "o", "o", "r", "d", "i", "n", "a", "t", "e", "s">>),
              PyStr(<<"U", "s", "e", "r", "_", "a", "g", "e", "n", "t", "s">>),
              PyStr(<<"t", "e", "s", "t">>), PyInt(1)}
HashArgs == {None, PyStr(<<>>), PyStr(<<"5", "1", "b", "4">>)}
RecordArgs == {PyStr(<<"a">>), PyStr(<<"A", "A", "A", "A">>),
               PyStr(<<"t", "x", "t">>), PyStr(<<"T", "x", "T">>),
               PyStr(<<"t", "e", "s", "t">>), PyInt(1)}
PrefixArgs == {None, PyStr(<<"x", "4", "0", "9">>)}
BoundArgs == {PyInt(0), PyInt(1), PyInt(10), PyStr(<<"1">>)}

\* what the HTTP transport can answer
HttpOutcomes ==
    {[k |-> "fail", status |-> 0, body |-> PyBytes(<<>>)],
     [k |-> "response", status |-> 200, body |-> JsonBody],
     [k |-> "response", status |-> 200, body |-> HtmlBody],
     [k |-> "response", status |-> 404, body |-> JsonBody],
     [k |-> "response", status |-> 503, body |-> HtmlBody]}

\* what the resolver can answer for a record type
DnsExceptions == {"NXDOMAIN", "NoAnswer", "LifetimeTimeout", "NoNameservers"}
TxtAnswers ==
    {<<[strings |-> <<PyBytes(<<"p", "l", "a", "i", "n">>),
                      PyBytes(<<"a", ".", "o", "n", "i", "o", "n">>)>>]>>,
     <<[strings |-> <<PyBytes(<<"b", ".", "o", "n", "i", "o", "n">>)>>],
       [strings |-> <<PyBytes(<<"o", "n", "i", "o", "n">>),
                      PyBytes(<<"a", ".", "o", "n", "i", "o", "n", ":", "1">>)>>]>>,
     <<[strings |-> <<PyBytes(<<"\\xff">>)>>]>>}
AddressAnswers ==
    {<<[address |-> <<"2", ".", "1">>]>>,
     <<[address |-> <<"2", ".", "1">>], [address |-> <<"1", ".", "2">>]>>}
DnsOutcomes(record) ==
    IF ~IsInstanceStr(record) \/ Lower(record.v) \notin RecordTypes
    THEN {[k |-> "exc", name |-> "NXDOMAIN", rrs |-> <<>>]}
    ELSE {[k |-> "exc", name |-> e, rrs |-> <<>>] : e \in DnsExceptions}
         \cup {[k |-> "answer", name |-> "", rrs |-> a] :
                  a \in IF Lower(record.v) = <<"t", "x", "t">>
                        THEN TxtAnswers ELSE AddressAnswers}

(***************************************************************************)
(* State.                                                                  *)
(***************************************************************************)
VARIABLES
    self,       \* the BitnodesAPI instance: its attributes
    environ,    \* os.environ
    now,        \* time.time() in microseconds
    lastNonce,  \* the nonce of the latest signing call that returned
                \* headers, -1 before the first
    configuredPath,
                \* the private key path the caller configured on the
                \* instance: the constructor's private_key_path argument,
                \* then the argument of the latest successful
                \* _set_private_key_path
    last        \* the latest call: operation, arguments, transport outcome
                \* offered (out), exception or return value, requests issued
                \* (http), DNS queries issued (dns)

vars == <<self, environ, now, lastNonce, configuredPath, last>>

NoOut == [k |-> "none"]

Call(op, args, out, r, aux) ==
    [op |-> op, args |-> args, out |-> out, exc |-> r.exc, ret |-> r.ret,
     http |-> r.http, dns |-> r.dns, aux |-> aux]

\* no call is in progress and no outcome is pending
Idle == [op |-> "idle", args |-> <<>>, out |-> NoOut, exc |-> "none",
         ret |-> None, http |-> <<>>, dns |-> <<>>, aux |-> None]

\* the client is synchronous: a call is made only once the caller has taken
\* the outcome of the call before it
Ready == last = Idle

\* a method that touches neither transport
Local(r) == [exc |-> r.exc, ret |-> r.ret, http |-> <<>>, dns |-> <<>>]

Init ==
    /\ environ \in Environs
    /\ now = 0
    /\ lastNonce = 0 - 1
    /\ \E public_api_key \in PublicKeys \cup {None},
          private_key_path \in Paths \cup {None} :
          LET r == __init__(environ, public_api_key, private_key_path)
          IN /\ self = r.self
             /\ configuredPath = private_key_path
             /\ last = Call("__init__", <<public_api_key, private_key_path>>,
                            NoOut, Local(r), [warned |-> r.warned])

\* the caller takes the outcome of the latest call and proceeds
Proceed ==
    /\ last # Idle
    /\ last' = Idle
    /\ UNCHANGED <<self, environ, now, lastNonce, configuredPath>>

(***************************************************************************)
(* The clock is the system's wall clock: it advances, two readings may     *)
(* fall on the same microsecond, and it can be set back.                   *)
(***************************************************************************)
ClockTick ==
    /\ now < MaxTime
    /\ now' = now + 1
    /\ UNCHANGED <<self, environ, lastNonce, last, configuredPath>>

ClockSetBack ==
    /\ now > 0
    /\ now' \in 0..(now - 1)
    /\ UNCHANGED <<self, environ, lastNonce, last, configuredPath>>

(***************************************************************************)
(* Construction and credentials.                                           *)
(***************************************************************************)
Construct ==
    /\ Ready
    /\ \E public_api_key \in PublicKeys \cup {None},
       private_key_path \in Paths \cup {None} :
       LET r == __init__(environ, public_api_key, private_key_path)
       IN /\ self' = r.self
          /\ configuredPath' = private_key_path
          /\ last' = Call("__init__", <<public_api_key, private_key_path>>,
                          NoOut, Local(r), [warned |-> r.warned])
          /\ UNCHANGED <<environ, now, lastNonce>>

SetPublicApiKey ==
    /\ Ready
    /\ \E public_api_key \in PublicKeys \cup {None, PyStr(<<>>), PyInt(5)} :
       LET r == set_public_api_key(self, public_api_key)
       IN /\ self' = r.self
          /\ last' = Call("set_public_api_key", <<public_api_key>>, NoOut,
                          Local(r), None)
          /\ UNCHANGED <<environ, now, lastNonce, configuredPath>>

GetPublicApiKey ==
    /\ Ready
    /\ last' = Call("get_public_api_key", <<>>, NoOut,
                    Local([exc |-> "none", ret |-> get_public_api_key(self)]),
                    None)
    /\ UNCHANGED <<self, environ, now, lastNonce, configuredPath>>

SetPrivateKeyPath ==
    /\ Ready
    /\ \E path \in Paths :
       LET r == _set_private_key_path(self, path)
       IN /\ self' = r.self
          /\ configuredPath' = IF r.exc = "none" THEN path
                                ELSE configuredPath
          /\ last' = Call("_set_private_key_path", <<path>>, NoOut, Local(r),
                          None)
          /\ UNCHANGED <<environ, now, lastNonce>>

GetPrivateKey ==
    /\ Ready
    /\ LET r == _get_private_key(self, environ)
       IN /\ self' = r.self
          /\ last' = Call("_get_private_key", <<>>, NoOut, Local(r), None)
          /\ UNCHANGED <<environ, now, lastNonce, configuredPath>>

GenerateAuthHeaders ==
    /\ Ready
    /\ \E uri \in Uris :
       LET r == _generate_auth_headers(self, environ, now, uri)
       IN /\ self' = r.self
          /\ lastNonce' = IF r.exc = "none" THEN r.nonce ELSE lastNonce
          /\ last' = Call("_generate_auth_headers", <<uri>>, NoOut, Local(r),
                          [key |-> r.key, nonce |-> r.nonce,
                           time |-> now, prev |-> lastNonce,
                           before |-> self])
          /\ UNCHANGED <<environ, now, configuredPath>>

(***************************************************************************)
(* The validators and the query builder called on their own.               *)
(***************************************************************************)
ValidatePagination ==
    /\ Ready
    /\ \E page \in PageVals, limit \in LimitVals :
       /\ last' = Call("_validate_pagination", <<page, limit>>, NoOut,
                       Local([exc |-> IF _validate_pagination(page, limit) = "ok"
                                      THEN "none"
                                      ELSE _validate_pagination(page, limit),
                              ret |-> None]),
                       None)
       /\ UNCHANGED <<self, environ, now, lastNonce, configuredPath>>

ValidateAddressPort ==
    /\ Ready
    /\ \E address \in AddressVals, port \in PortVals :
       /\ last' = Call("_validate_address_port", <<address, port>>, NoOut,
                       Local([exc |-> IF _validate_address_port(address, port) = "ok"
                                      THEN "none"
                                      ELSE _validate_address_port(address, port),
                              ret |-> None]),
                       None)
       /\ UNCHANGED <<self, environ, now, lastNonce, configuredPath>>

AddOptionalParams ==
    /\ Ready
    /\ \E og_url_str \in BaseStrs, optional_params \in Dicts :
       /\ last' = Call("_add_optional_params", <<og_url_str, optional_params>>,
                       NoOut,
                       Local([exc |-> "none",
                              ret |-> PyStr(_add_optional_params(og_url_str,
                                                                 optional_params))]),
                       None)
       /\ UNCHANGED <<self, environ, now, lastNonce, configuredPath>>

(***************************************************************************)
(* Endpoints.  Each is one blocking call.                                  *)
(***************************************************************************)
GetSnapshots ==
    /\ Ready
    /\ \E page \in PageArgs, limit \in LimitArgs, out \in HttpOutcomes :
       /\ last' = Call("get_snapshots", <<page, limit>>, out,
                       get_snapshots(self, page, limit, out), None)
       /\ UNCHANGED <<self, environ, now, lastNonce, configuredPath>>

GetNodesList ==
    /\ Ready
    /\ \E timestamp \in TimestampArgs, field \in FieldArgs, out \in HttpOutcomes :
       /\ last' = Call("get_nodes_list", <<timestamp, field>>, out,
                       get_nodes_list(self, timestamp, field, out), None)
       /\ UNCHANGED <<self, environ, now, lastNonce, configuredPath>>

GetAddressList ==
    /\ Ready
    /\ \E page \in PageArgs, limit \in LimitArgs, q \in QArgs,
       out \in HttpOutcomes :
       /\ last' = Call("get_address_list", <<page, limit, q>>, out,
                       get_address_list(self, page, limit, q, out), None)
       /\ UNCHANGED <<self, environ, now, lastNonce, configuredPath>>

GetNodeStatus ==
    /\ Ready
    /\ \E address \in AddressArgs, port \in PortArgs, out \in HttpOutcomes :
       /\ last' = Call("get_node_status", <<address, port>>, out,
                       get_node_status(self, address, port, out), None)
       /\ UNCHANGED <<self, environ, now, lastNonce, configuredPath>>

GetNodeLatency ==
    /\ Ready
    /\ \E address \in AddressArgs, port \in PortArgs, out \in HttpOutcomes :
       /\ last' = Call("get_node_latency", <<address, port>>, out,
                       get_node_latency(self, address, port, out), None)
       /\ UNCHANGED <<self, environ, now, lastNonce, configuredPath>>

GetLeaderboard ==
    /\ Ready
    /\ \E page \in PageArgs, limit \in LimitArgs, out \in HttpOutcomes :
       /\ last' = Call("get_leaderboard", <<page, limit>>, out,
                       get_leaderboard(self, page, limit, out), None)
       /\ UNCHANGED <<self, environ, now, lastNonce, configuredPath>>

GetNodeRanking ==
    /\ Ready
    /\ \E address \in AddressArgs, port \in PortArgs, out \in HttpOutcomes :
       /\ last' = Call("get_node_ranking", <<address, port>>, out,
                       get_node_ranking(self, address, port, out), None)
       /\ UNCHANGED <<self, environ, now, lastNonce, configuredPath>>

GetDataPropagationList ==
    /\ Ready
    /\ \E page \in PageArgs, limit \in LimitArgs, out \in HttpOutcomes :
       /\ last' = Call("get_data_propagation_list", <<page, limit>>, out,
                       get_data_propagation_list(self, page, limit, out), None)
       /\ UNCHANGED <<self, environ, now, lastNonce, configuredPath>>

GetDataPropagation ==
    /\ Ready
    /\ \E inv_hash \in HashArgs, out \in HttpOutcomes :
       /\ last' = Call("get_data_propagation", <<inv_hash>>, out,
                       get_data_propagation(self, inv_hash, out), None)
       /\ UNCHANGED <<self, environ, now, lastNonce, configuredPath>>

GetDnsSeeder ==
    /\ Ready
    /\ \E record \in RecordArgs, prefix \in PrefixArgs,
       resolver_timeout \in BoundArgs, resolver_lifetime \in BoundArgs :
       \E out \in DnsOutcomes(record) :
          /\ last' = Call("get_dns_seeder",
                          <<record, prefix, resolver_timeout, resolver_lifetime>>,
                          out,
                          get_dns_seeder(self, record, prefix, resolver_timeout,
                                         resolver_lifetime, out),
                          None)
          /\ UNCHANGED <<self, environ, now, lastNonce, configuredPath>>

Next ==
    \/ Proceed
    \/ ClockTick
    \/ ClockSetBack
    \/ Construct
    \/ SetPublicApiKey
    \/ GetPublicApiKey
    \/ SetPrivateKeyPath
    \/ GetPrivateKey
    \/ GenerateAuthHeaders
    \/ ValidatePagination
    \/ ValidateAddressPort
    \/ AddOptionalParams
    \/ GetSnapshots
    \/ GetNodesList
    \/ GetAddressList
    \/ GetNodeStatus
    \/ GetNodeLatency
    \/ GetLeaderboard
    \/ GetNodeRanking
    \/ GetDataPropagationList
    \/ GetDataPropagation
    \/ GetDnsSeeder

Spec == Init /\ [][Next]_vars

(***************************************************************************)
(* Properties.                                                             *)
(***************************************************************************)
HttpEndpoints == {"get_snapshots", "get_nodes_list", "get_address_list",
                  "get_node_status", "get_node_latency", "get_leaderboard",
                  "get_node_ranking", "get_data_propagation_list",
                  "get_data_propagation"}
Endpoints == HttpEndpoints \cup {"get_dns_seeder"}

\* the exceptions a call ends with when its arguments are rejected
InvalidInputErrors == {"ValueError", "AttributeError"}

\* the client has a public key / a private key source configured
HasPublicKey == self.public_api_key # None
HasPrivateKey ==
    environ.BITNODES_PRIVATE_KEY # None \/ self.private_key_path # Unset

\* C1: an endpoint call that ends with a validation error has invoked
\* neither the HTTP transport nor the DNS resolver.
C1_NoTransportOnInvalidInput ==
    (last.op \in Endpoints /\ last.exc \in InvalidInputErrors)
        => (Len(last.http) = 0 /\ Len(last.dns) = 0)

\* node status asked for the empty address was rejected
C1_Witness ==
    /\ last.op = "get_node_status"
    /\ last.args[1] = PyStr(<<>>)
    /\ last.out.k = "response"
    /\ last.exc = "ValueError"

\* C2: the request of an endpoint call carries auth headers exactly when
\* the client has both a public key and a private key configured.
C2_AuthHeadersIffBothKeys ==
    (last.op \in HttpEndpoints /\ Len(last.http) = 1)
        => ((last.http[1].headers # None) <=> (HasPublicKey /\ HasPrivateKey))

\* C3: an HTTP endpoint call whose response has a non-2xx status ends with
\* an HTTP error and never returns the decoded body.
C3_NonSuccessStatusRaises ==
    (/\ last.op \in HttpEndpoints
     /\ Len(last.http) = 1
     /\ last.out.k = "response"
     /\ ~(200 <= last.out.status /\ last.out.status < 300))
        => last.exc = "HTTPError"

C5_AddressPortRaisesExactly ==
    last.op = "_validate_address_port" =>
        LET address == last.args[1]
            port == last.args[2]
            badAddress == IF address.t = "str" THEN Len(address.v) = 0
                          ELSE TRUE
            badPort == IF port.t \in {"int", "bool"}
                       THEN port.v \notin 1..65535
                       ELSE TRUE
        IN (last.exc = "ValueError") <=> (badAddress \/ badPort)

\* port 0 was rejected for a well-formed address
C5_Witness ==
    /\ last.op = "_validate_address_port"
    /\ last.args = <<PyStr(<<"h">>), PyInt(0)>>
    /\ last.exc = "ValueError"

\* the items of a dict whose value is not None, in order
NonNull(items) == SelectSeq(items, LAMBDA it : it[2] # None)

RECURSIVE QueryString(_)
\* k=v pairs separated by single "&"
QueryString(items) ==
    IF Len(items) = 0 THEN <<>>
    ELSE items[1][1] \o <<"=">> \o Format(items[1][2])
         \o (IF Len(items) > 1 THEN <<"&">> \o QueryString(Tail(items))
             ELSE <<>>)

\* C6: for a mapping with a non-null value, _add_optional_params returns
\* base, "?", and the k=v pairs of exactly the non-null entries in insertion
\* order separated by single "&", with no trailing separator.
C6_QueryOfNonNullEntries ==
    (last.op = "_add_optional_params" /\ Len(NonNull(last.args[2])) > 0)
        => last.ret = PyStr(last.args[1] \o <<"?">>
                            \o QueryString(NonNull(last.args[2])))

\* {page: None, limit: 5} gave base?limit=5
C6_Witness ==
    /\ last.op = "_add_optional_params"
    /\ last.args = <<<<"b", "/">>,
                     <<<<PageKey, None>>, <<LimitKey, PyInt(5)>>>>>>
    /\ last.ret = PyStr(<<"b", "/", "?", "l", "i", "m", "i", "t", "=", "5">>)

\* C7: _add_optional_params returns base unchanged when the mapping has no
\* non-null value, and a paginated endpoint called without page and limit
\* requests the bare endpoint path.
C7_BaseUnchangedWithoutValues ==
    /\ (last.op = "_add_optional_params" /\ Len(NonNull(last.args[2])) = 0)
           => last.ret = PyStr(last.args[1])
    /\ (last.op = "get_snapshots" /\ last.args = <<None, None>>
        /\ Len(last.http) = 1)
           => last.http[1].url
                  = BaseUrl \o <<"s", "n", "a", "p", "s", "h", "o", "t", "s", "/">>

\* C8: a signing call returns the stored public key, the nonce it drew and
\* "HMAC_SHA256:" followed by the hex HMAC-SHA256, keyed with the private
\* key, of publicKey ":" nonce ":" uri; the signature is determined by
\* these four values.
C8_AuthHeadersFormat ==
    (last.op = "_generate_auth_headers" /\ last.exc = "none") =>
        LET privateKey == IF environ.BITNODES_PRIVATE_KEY # None
                          THEN environ.BITNODES_PRIVATE_KEY
                          ELSE ReadFile(self.private_key_path)
            nonce == IntToStr(last.aux.time)
            message == Format(self.public_api_key) \o <<":">> \o nonce
                       \o <<":">> \o last.args[1].v
        IN /\ last.ret.pubkey = self.public_api_key
           /\ last.ret.nonce = PyStr(nonce)
           /\ last.ret.sig
                  = <<SigPrefix,
                      [alg |-> "HMAC-SHA256", key |-> PyBytes(privateKey.v),
                       msg |-> PyBytes(message)]>>

\* a signing call succeeded with the key read from the key file
C8_Witness ==
    /\ last.op = "_generate_auth_headers"
    /\ last.exc = "none"
    /\ last.aux.key = FileSecret
    /\ last.aux.time > 0

\* C9: the nonce of every signing call that returns headers is strictly
\* greater than the nonce of the one before it.
C9_NonceStrictlyIncreasing ==
    (last.op = "_generate_auth_headers" /\ last.exc = "none"
     /\ last.aux.prev >= 0)
        => last.aux.nonce > last.aux.prev

\* C10: no attribute of the instance ever holds private key material.
C10_NoKeyMaterialInInstance ==
    \A f \in DOMAIN self :
        (IF f = "base_url" THEN PyStr(self[f]) ELSE self[f]) \notin KeyMaterial

\* a signing call has read the key file and has returned
C10_Witness ==
    /\ last.op = "_generate_auth_headers"
    /\ last.exc = "none"
    /\ last.aux.key = FileSecret
    /\ self.private_key_path = KeyFile

\* C11: a signing call uses the value of BITNODES_PRIVATE_KEY when it is
\* set, and otherwise the content of the file whose path was configured on
\* the client, by the setter or as the constructor's private_key_path.
C11_KeyFromEnvElseConfiguredFile ==
    last.op = "_generate_auth_headers" =>
        IF environ.BITNODES_PRIVATE_KEY # None
        THEN last.exc = "none" /\ last.aux.key = environ.BITNODES_PRIVATE_KEY
        ELSE (configuredPath # None /\ ReadFile(configuredPath) # Unset)
                 => (last.exc = "none"
                     /\ last.aux.key = ReadFile(configuredPath))

\* C12: when the private key cannot be read (no environment value, and the
\* key file path unset or the file unreadable) a signing call ends with the
\* credential error, returns no headers, attempts no request and leaves the
\* instance as it was.
C12_UnreadableKeyRaises ==
    (/\ last.op = "_generate_auth_headers"
     /\ environ.BITNODES_PRIVATE_KEY = None
     /\ (last.aux.before.private_key_path = Unset
         \/ ReadFile(last.aux.before.private_key_path) = Unset))
        => /\ last.exc = "RuntimeError"
           /\ last.ret = None
           /\ Len(last.http) = 0 /\ Len(last.dns) = 0
           /\ self = last.aux.before

\* a signing call failed on a key file that open() cannot read
C12_Witness ==
    /\ last.op = "_generate_auth_headers"
    /\ environ.BITNODES_PRIVATE_KEY = None
    /\ self.private_key_path = LockedFile
    /\ last.exc = "RuntimeError"

\* s is t up to the case of its letters; t is in lower case
EqualIgnoringCase(s, t) ==
    /\ Len(s) = Len(t)
    /\ \A i \in 1..Len(s) :
          \/ s[i] = t[i]
          \/ \E j \in 1..Len(UpperCase) :
                s[i] = UpperCase[j] /\ t[i] = LowerCase[j]

\* the record type a seed query asks for, "" when it is none of the three
RecordTypeOf(record) ==
    IF record.t # "str" THEN ""
    ELSE IF EqualIgnoringCase(record.v, <<"a">>) THEN "A"
    ELSE IF EqualIgnoringCase(record.v, <<"a", "a", "a", "a">>) THEN "AAAA"
    ELSE IF EqualIgnoringCase(record.v, <<"t", "x", "t">>) THEN "TXT"
    ELSE ""

\* a resolver bound that is not an integer of at least 1
BadBound(x) == IF x.t \in {"int", "bool"} THEN x.v < 1 ELSE TRUE

RECURSIVE MarkedSegments(_)
\* the segments of the TXT rdata that contain ".onion", record by record
MarkedSegments(rrs) ==
    IF Len(rrs) = 0 THEN <<>>
    ELSE SelectSeq(rrs[1].strings,
                   LAMBDA b : \E i \in 1..Len(b.v) :
                                 /\ i + 5 <= Len(b.v)
                                 /\ SubSeq(b.v, i, i + 5)
                                        = <<".", "o", "n", "i", "o", "n">>)
         \o MarkedSegments(Tail(rrs))

\* C13: for record type TXT, get_dns_seeder returns exactly the TXT string
\* segments that contain ".onion", decoded, in the resolver's order; the
\* other segments are dropped without error.
C13_TxtReturnsOnionSegments ==
    (/\ last.op = "get_dns_seeder"
     /\ RecordTypeOf(last.args[1]) = "TXT"
     /\ Len(last.dns) = 1
     /\ last.out.k = "answer")
        => /\ last.exc = "none"
           /\ last.ret = PyList([i \in 1..Len(MarkedSegments(last.out.rrs)) |->
                                    PyStr(MarkedSegments(last.out.rrs)[i].v)])

C15_BoundsAppliedBeforeResolve ==
    (last.op = "get_dns_seeder" /\ Len(last.dns) = 1)
        => /\ last.dns[1].timeout = last.args[3]
           /\ last.dns[1].lifetime = last.args[4]

\* C16: a seed query with timeout or lifetime below 1 is rejected with a
\* validation error for every record type and never reaches the resolver.
C16_BoundsRejectedForEveryRecord ==
    (/\ last.op = "get_dns_seeder"
     /\ RecordTypeOf(last.args[1]) # ""
     /\ \/ (last.args[3].t = "int" /\ last.args[3].v < 1)
        \/ (last.args[4].t = "int" /\ last.args[4].v < 1))
        => (last.exc = "ValueError" /\ Len(last.dns) = 0)

\* the textual addresses of an answer, in the resolver's order
Addresses(rrs) == PyList([i \in 1..Len(rrs) |-> PyStr(rrs[i].address)])

\* C17: for A and AAAA, an answer is returned as its textual addresses in
\* the resolver's order, NoAnswer gives the empty list without an error,
\* and a resolution error is raised only when the DNS layer cannot be
\* reached.
C17_NoAnswerGivesEmptyList ==
    (/\ last.op = "get_dns_seeder"
     /\ RecordTypeOf(last.args[1]) \in {"A", "AAAA"}
     /\ Len(last.dns) = 1)
        => /\ last.out.k = "answer"
                => (last.exc = "none" /\ last.ret = Addresses(last.out.rrs))
           /\ (last.out.k = "exc" /\ last.out.name = "NoAnswer")
                => (last.exc = "none" /\ last.ret = PyList(<<>>))
           /\ last.exc = "RuntimeError"
                => last.out.name \in {"LifetimeTimeout", "NoNameservers"}

\* C17 as amended: for A and AAAA, every DNS exception of the resolver,
\* NoAnswer and NXDOMAIN included, is raised as the resolution error, and an
\* answer is returned as its textual addresses in the resolver's order.
C17_DnsExceptionsRaise ==
    (/\ last.op = "get_dns_seeder"
     /\ RecordTypeOf(last.args[1]) \in {"A", "AAAA"}
     /\ Len(last.dns) = 1)
        => IF last.out.k = "exc"
           THEN last.exc = "RuntimeError" /\ last.ret = None
           ELSE last.exc = "none" /\ last.ret = Addresses(last.out.rrs)

\* an A query that the resolver answered with NoAnswer raised
C17_Witness ==
    /\ last.op = "get_dns_seeder"
    /\ last.args[1] = PyStr(<<"a">>)
    /\ last.out.k = "exc"
    /\ last.out.name = "NoAnswer"
    /\ last.exc = "RuntimeError"

\* C18: an endpoint call invokes a transport at most once, whatever its
\* outcome, and a call that returns a value has invoked it exactly once.
C18_AtMostOneTransportCall ==
    last.op \in Endpoints =>
        /\ Len(last.http) + Len(last.dns) <= 1
        /\ last.exc = "none" => Len(last.http) + Len(last.dns) = 1

\* node latency ended with an HTTP error after its one request
C18_Witness ==
    /\ last.op = "get_node_latency"
    /\ last.out.k = "response"
    /\ last.out.status = 503
    /\ last.exc = "HTTPError"
    /\ Len(last.http) = 1

\* C19: the stored public key and private key path change only in a
\* successful setter call (or with the construction of a new instance);
\* set_public_api_key raises for an empty or non-string key and leaves the
\* key unchanged, and after set_public_api_key(k) succeeds
\* get_public_api_key returns k.
C19_CredentialChangesOnlyBySetter ==
    [][/\ (\/ self'.public_api_key # self.public_api_key
           \/ self'.private_key_path # self.private_key_path)
          => \/ /\ last'.op \in {"set_public_api_key", "_set_private_key_path"}
                /\ last'.exc = "none"
             \/ last'.op = "__init__"
       /\ (last.op = "idle" /\ last'.op = "set_public_api_key")
          => IF (IF last'.args[1].t = "str" THEN Len(last'.args[1].v) > 0
                 ELSE FALSE)
             THEN /\ last'.exc = "none"
                  /\ self'.public_api_key = last'.args[1]
             ELSE /\ last'.exc = "ValueError"
                  /\ self' = self
       /\ (last.op = "idle" /\ last'.op = "get_public_api_key")
          => last'.ret = self.public_api_key
      ]_vars

\* the public key was replaced by a successful set_public_api_key
C19_Witness ==
    /\ last.op = "set_public_api_key"
    /\ last.exc = "none"
    /\ last.args[1] = PyStr(<<"P", "2">>)
    /\ self.public_api_key = PyStr(<<"P", "2">>)

====
